---- MODULE Spec2Model ----
(***************************************************************************)
(* A model of types/voter_set.go of ostracon: the VoterSet value, its      *)
(* constructors (NewVoterSet, SelectVoter, ToVoterAll, Copy,               *)
(* VoterSetFromProto), its readers and the three commit verifiers.         *)
(*                                                                         *)
(* Machine integers are two's-complement words of IntBits bits (64 in the  *)
(* program); every constant derived from the word size (MaxInt64,          *)
(* MaxUint64, MaxTotalVotingPower) scales with it.  Indices reported in    *)
(* errors are 0-based as in the program; sequences are 1-based.            *)
(***************************************************************************)
EXTENDS Integers, Sequences, FiniteSets, TLC

VARIABLES built, vs, call, pc, writes, pool, seen

vars == <<built, vs, call, pc, writes, pool, seen>>

(* ------------------------------ bounds ------------------------------- *)

\* width of the machine word that stands for int64 / uint64
IntBits == 8
\* addresses of the validators offered to NewVoterSet and on the wire
NumAddrs == 2
\* longest validator list given to NewVoterSet / carried by a wire message
MaxLen == 2
\* longest signature list of a commit
MaxSigs == 2
\* heights and block ids a commit may carry (the caller verifies 1 / 1)
MaxHeight == 2
\* the configuration variable MaxVoters (20 in voter_set.go:21), scaled
MaxVoters == 2
\* draws the sampler may take beyond MaxVoters
ExtraDraws == 1
MantissaBits == 6
\* concurrent reader threads
NumReaders == 2
\* longest input of BitArray.Unmarshal, in bytes
MaxBytes == 4
MaxEvidence == 2

(* ------------------------- machine integers -------------------------- *)

MaxInt64 == 2^(IntBits - 1) - 1
MinInt64 == -(2^(IntBits - 1))
MaxUint64 == 2^IntBits - 1

\* int64 arithmetic wraps
Wrap(x) == ((x - MinInt64) % (2^IntBits)) + MinInt64

\* Go's integer division truncates toward zero
GoDiv(a, b) ==
  IF (a >= 0) = (b > 0) THEN (IF a >= 0 THEN a ELSE -a) \div (IF b > 0 THEN b ELSE -b)
  ELSE -((IF a >= 0 THEN a ELSE -a) \div (IF b > 0 THEN b ELSE -b))

\* int64(x) of a uint64 x
ToInt64(u) == Wrap(u)

MaxTotalVotingPower == MaxInt64 \div 8

safeAddClip(a, b) ==
  IF a + b > MaxInt64 THEN MaxInt64
  ELSE IF a + b < MinInt64 THEN MinInt64
  ELSE a + b

\* <<product, overflow>>
safeMul(a, b) ==
  IF a = 0 \/ b = 0 THEN <<0, FALSE>>
  ELSE IF a * b > MaxInt64 \/ a * b < MinInt64 THEN <<0, TRUE>>
  ELSE <<a * b, FALSE>>

(* ---------------------------- validators ----------------------------- *)

Addrs == 1..NumAddrs

\* voting powers of the validators offered; the largest is the ceiling itself
Powers == {0, 1, 2, MaxTotalVotingPower}

\* a validator's public key is identified with the address derived from it
Validator(a, p) == [Address |-> a, PubKey |-> a, VotingPower |-> p]

Validators == {Validator(a, p) : a \in Addrs, p \in Powers}

ListsUpTo(S, n) == UNION {[1..k -> S] : k \in 0..n}

\* the lists given to NewVoterSet: any order, no address twice
ValidatorLists ==
  {l \in ListsUpTo(Validators, MaxLen) :
     \A i, j \in 1..Len(l) : l[i].Address = l[j].Address => i = j}

\* ValidatorsByAddress.Less
ValidatorsByAddress(s) == \A i \in 1..(Len(s) - 1) : s[i].Address <= s[i + 1].Address

\* sort.Sort is not stable: any arrangement of the list that is in order
SortedArrangements(s) ==
  LET n == Len(s)
      perms == {p \in [1..n -> 1..n] : \A i, j \in 1..n : p[i] = p[j] => i = j}
  IN {t \in {[i \in 1..n |-> s[p[i]]] : p \in perms} : ValidatorsByAddress(t)}

copyValidatorListShallow(vals) == [i \in 1..Len(vals) |-> vals[i]]

(* ----------------------------- VoterSet ------------------------------ *)

VoterSet(voters, total) == [Voters |-> voters, totalVotingPower |-> total]

NoSet == VoterSet(<<>>, 0)

RECURSIVE sumVotingPower(_, _, _)
sumVotingPower(voters, i, sum) ==
  IF i > Len(voters) THEN [panicked |-> FALSE, sum |-> sum]
  ELSE LET s == safeAddClip(sum, voters[i].VotingPower)
       IN IF s > MaxTotalVotingPower THEN [panicked |-> TRUE, sum |-> s]
          ELSE sumVotingPower(voters, i + 1, s)

\* the sum it stores, or the panic it raises
updateTotalVotingPower(voters) == sumVotingPower(voters, 1, 0)

IsNilOrEmpty(v) == Len(v.Voters) = 0

Size(v) == Len(v.Voters)

\* result records: the kind of error (or "ok"), the address it names and two
\* numbers whose meaning depends on the kind
ResWho(kind, who, a, b) == [kind |-> kind, who |-> who, a |-> a, b |-> b]

Res(kind, a, b) == ResWho(kind, 0, a, b)

Ok == Res("ok", 0, 0)
Panic == Res("panic", 0, 0)

\* TotalVotingPower(): the value returned, the set afterwards, whether the
\* cached field was stored to
TotalVotingPower(v) ==
  IF v.totalVotingPower = 0
  THEN LET u == updateTotalVotingPower(v.Voters)
       IN IF u.panicked THEN [res |-> Panic, after |-> v, wrote |-> FALSE]
          ELSE [res |-> Res("ok", u.sum, 0),
                after |-> VoterSet(v.Voters, u.sum), wrote |-> TRUE]
  ELSE [res |-> Res("ok", v.totalVotingPower, 0), after |-> v, wrote |-> FALSE]

(* --------------------------- constructors ---------------------------- *)

\* NewVoterSet on a list already sorted by sort.Sort
NewVoterSetSorted(sorted) ==
  LET u == updateTotalVotingPower(sorted)
  IN IF u.panicked THEN [res |-> Panic, set |-> NoSet]
     ELSE [res |-> Ok, set |-> VoterSet(copyValidatorListShallow(sorted), u.sum)]

Copy(v) == VoterSet(copyValidatorListShallow(v.Voters), v.totalVotingPower)

(* ------------------------- wire representation ----------------------- *)

ValidatorToProto(v) ==
  [address |-> v.Address, pub_key |-> v.PubKey, voting_power |-> v.VotingPower]

ValidatorFromProto(vp) ==
  [Address |-> vp.address, PubKey |-> vp.pub_key, VotingPower |-> vp.voting_power]

ProtoVoterSet(validators, total) ==
  [validators |-> validators, total_voting_power |-> total]

\* a variant of the encoder that leaves total_voting_power unset
ToProtoWithoutTotal(v) ==
  IF IsNilOrEmpty(v) THEN ProtoVoterSet(<<>>, 0)
  ELSE ProtoVoterSet([i \in 1..Len(v.Voters) |-> ValidatorToProto(v.Voters[i])], 0)

ToProto(v) ==
  IF IsNilOrEmpty(v) THEN ProtoVoterSet(<<>>, 0)
  ELSE ProtoVoterSet([i \in 1..Len(v.Voters) |-> ValidatorToProto(v.Voters[i])],
                     v.totalVotingPower)

\* every validator offered passes Validator.ValidateBasic; what is left is the
\* emptiness check
ValidateBasic(v) ==
  IF IsNilOrEmpty(v) THEN Res("NilOrEmpty", 0, 0) ELSE Ok

VoterSetFromProto(vp) ==
  LET voters == VoterSet([i \in 1..Len(vp.validators) |-> ValidatorFromProto(vp.validators[i])],
                         vp.total_voting_power)
  IN [set |-> voters, err |-> ValidateBasic(voters)]

\* total_voting_power fields a wire message may carry
ProtoTotals == {0, 3, MaxInt64}

\* voting_power fields a wire message may carry: Validator.ValidateBasic
\* rejects only negative powers
WirePowers == Powers \cup {MaxInt64}

ProtoSets ==
  {ProtoVoterSet(l, t) :
     l \in ListsUpTo({ValidatorToProto(Validator(a, p)) : a \in Addrs, p \in WirePowers},
                     MaxLen),
     t \in ProtoTotals}

(* ------------------------- voter selection --------------------------- *)

ValAddrs == 1..(MaxVoters + 1)

\* voting powers of the validators of a validator set
ValPowers == {0, 1, 2, MaxTotalVotingPower - 2}

RECURSIVE SumPowers(_)
SumPowers(s) == IF s = <<>> THEN 0 ELSE s[1].VotingPower + SumPowers(Tail(s))

\* a validator set: unique addresses in ascending order, total power within
\* the ceiling
ValidatorSets ==
  {s \in ListsUpTo({Validator(a, p) : a \in ValAddrs, p \in ValPowers}, MaxVoters + 1) :
     /\ \A i \in 1..(Len(s) - 1) : s[i].Address < s[i + 1].Address
     /\ SumPowers(s) <= MaxTotalVotingPower}

ValidatorSetTotalVotingPower(validators) == SumPowers(validators)

ProofHashes == {<<>>, <<1>>}

\* candidate.Priority
Priority(val) == IF val.VotingPower < 0 THEN 0 ELSE val.VotingPower

RECURSIVE SumWins(_, _)
SumWins(win, n) == IF n = 0 THEN 0 ELSE win[n] + SumWins(win, n - 1)

\* what RandomSamplingToMax may leave behind: a win count per candidate; only
\* candidates of positive priority win, at most MaxVoters of them, in
\* MaxVoters .. MaxVoters + ExtraDraws draws
SamplerOutcomes(validators) ==
  LET n == Len(validators)
  IN {win \in [1..n -> 0..(MaxVoters + ExtraDraws)] :
        /\ SumWins(win, n) \in MaxVoters..(MaxVoters + ExtraDraws)
        /\ \A i \in 1..n : win[i] > 0 => Priority(validators[i]) > 0
        /\ Cardinality({i \in 1..n : win[i] > 0}) <= MaxVoters}

\* math.Ceil(float64(r) / float64(d) * float64(w)) for 0 <= r < d, w <= d:
\* the float64 result is the exact ceiling for every d below 25
(* float64 arithmetic, scaled like the integers: a value is m * 2^e with a
   mantissa m of at most MantissaBits bits (53 in the program); every
   operation rounds its exact result to the nearest such value, ties to the
   even mantissa.  Only non-negative values occur. *)
Float(m, e) == [m |-> m, e |-> e]

\* n / 2^s rounded to the nearest integer, ties to even
RoundShift(n, s) ==
  IF s = 0 THEN n
  ELSE LET q == n \div 2^s
           rem == n % 2^s
           half == 2^(s - 1)
       IN IF rem > half \/ (rem = half /\ q % 2 = 1) THEN q + 1 ELSE q

\* the float nearest to n * 2^e
Normalize(n, e) ==
  IF n < 2^MantissaBits THEN Float(n, e)
  ELSE LET s == CHOOSE t \in 1..(2 * IntBits) :
                  /\ n \div 2^t < 2^MantissaBits
                  /\ n \div 2^(t - 1) >= 2^MantissaBits
           m == RoundShift(n, s)
       IN IF m = 2^MantissaBits THEN Float(2^(MantissaBits - 1), e + s + 1)
          ELSE Float(m, e + s)

float64(i) == Normalize(i, 0)

\* the float nearest to a / b, for b # 0
FloatDiv(a, b) ==
  IF a.m = 0 THEN Float(0, 0)
  ELSE LET k == CHOOSE t \in 0..(2 * MantissaBits) :
                  /\ (a.m * 2^t) \div b.m >= 2^(MantissaBits - 1)
                  /\ (a.m * 2^t) \div b.m < 2^MantissaBits
           q == (a.m * 2^k) \div b.m
           rem == (a.m * 2^k) % b.m
           m == IF 2 * rem > b.m \/ (2 * rem = b.m /\ q % 2 = 1) THEN q + 1 ELSE q
       IN IF m = 2^MantissaBits
          THEN Float(2^(MantissaBits - 1), a.e - b.e - k + 1)
          ELSE Float(m, a.e - b.e - k)

FloatMul(a, b) == Normalize(a.m * b.m, a.e + b.e)

\* int64(math.Ceil(f))
CeilToInt64(f) ==
  IF f.e >= 0 THEN Wrap(f.m * 2^(f.e))
  ELSE Wrap((f.m + 2^(0 - f.e) - 1) \div 2^(0 - f.e))

\* int64(math.Ceil(float64(r) / float64(d) * float64(w)))
CeilOfShare(r, d, w) ==
  CeilToInt64(FloatMul(FloatDiv(float64(r), float64(d)), float64(w)))

\* ceil(r * w / d) in exact arithmetic
ExactCeilOfShare(r, d, w) == (r * w + d - 1) \div d

\* the VotingPower expression of SelectVoter
SelectedVotingPower(total, totalSampling, win) ==
  Wrap(Wrap(GoDiv(total, ToInt64(totalSampling)) * ToInt64(win))
       + CeilOfShare(total % ToInt64(totalSampling), ToInt64(totalSampling), ToInt64(win)))

RECURSIVE Winners(_, _, _, _, _)
Winners(validators, win, total, totalSampling, i) ==
  IF i > Len(validators) THEN <<>>
  ELSE IF win[i] > 0
       THEN <<[Address |-> validators[i].Address,
               PubKey |-> validators[i].PubKey,
               VotingPower |-> SelectedVotingPower(total, totalSampling, win[i])]>>
            \o Winners(validators, win, total, totalSampling, i + 1)
       ELSE Winners(validators, win, total, totalSampling, i + 1)

IsPassThrough(validators, proofHash) ==
  Len(proofHash) = 0 \/ Len(validators) <= MaxVoters

\* the validator list SelectVoter hands to NewVoterSet in its sampling branch
SelectedVals(validators, win) ==
  Winners(validators, win, ValidatorSetTotalVotingPower(validators),
          SumWins(win, Len(validators)), 1)

(* ------------------------------ commits ------------------------------ *)

\* a signature names the key that made it over the canonical sign-bytes of
\* its entry; 0 is a byte string no key made
CommitSig(flag, address, signature) ==
  [BlockIDFlag |-> flag, ValidatorAddress |-> address, Signature |-> signature]

CommitSigAbsent == CommitSig("Absent", 0, 0)

CommitSigs ==
  {CommitSigAbsent}
  \cup {CommitSig(f, a, s) : f \in {"Commit", "Nil"}, a \in Addrs, s \in {0} \cup Addrs}

Commits ==
  [Height : 1..MaxHeight, BlockID : 1..MaxHeight,
   Signatures : ListsUpTo({cs \in CommitSigs : cs.Signature \in {0, cs.ValidatorAddress}},
                          MaxSigs)]

Absent(cs) == cs.BlockIDFlag = "Absent"

ForBlock(cs) == cs.BlockIDFlag = "Commit"

\* PubKey.VerifySignature over commit.VoteSignBytes(chainID, idx)
VerifySignature(pubKey, signature) == signature = pubKey

\* trust levels: numerator and denominator are uint64
Fraction(n, d) == [Numerator |-> n, Denominator |-> d]

TrustLevels ==
  {Fraction(2, 3), Fraction(1, 0), Fraction(MaxInt64, 1), Fraction(MaxUint64, 1),
   Fraction(1, MaxUint64)}

(* ----------------------------- lookups ------------------------------- *)

\* sort.Search(n, f) with f(i) = bytes.Compare(address, Voters[i].Address) <= 0
RECURSIVE Search(_, _, _, _)
Search(v, address, i, j) ==
  IF i < j
  THEN LET h == (i + j) \div 2
       IN IF ~(address <= v.Voters[h + 1].Address) THEN Search(v, address, h + 1, j)
          ELSE Search(v, address, i, h)
  ELSE i

HasAddress(v, address) ==
  LET idx == Search(v, address, 0, Len(v.Voters))
  IN idx < Len(v.Voters) /\ v.Voters[idx + 1].Address = address

GetByAddress(v, address) ==
  LET idx == Search(v, address, 0, Len(v.Voters))
  IN IF idx < Len(v.Voters) /\ v.Voters[idx + 1].Address = address
     THEN [index |-> idx, found |-> TRUE, val |-> v.Voters[idx + 1]]
     ELSE [index |-> -1, found |-> FALSE, val |-> Validator(0, 0)]

GetByIndex(v, index) ==
  IF index < 0 \/ index >= Len(v.Voters)
  THEN [found |-> FALSE, val |-> Validator(0, 0)]
  ELSE [found |-> TRUE, val |-> v.Voters[index + 1]]

(* ----------------------------- verifiers ----------------------------- *)

\* what a verifier call leaves: the error (or Ok), the 0-based indices whose
\* signatures were verified, the threshold used, the set afterwards and
\* whether the cached total was stored to
Outcome(res, examined, needed, t) ==
  [res |-> res, examined |-> examined, needed |-> needed,
   after |-> t.after, wrote |-> t.wrote]

Untouched(v) == [after |-> v, wrote |-> FALSE]

\* a variant of the exhaustive scan that tallies without verifying signatures
RECURSIVE VerifyCommitLoopUnverified(_, _, _, _, _, _)
VerifyCommitLoopUnverified(v, commit, i, talliedVotingPower, votingPowerNeeded, examined) ==
  IF i > Len(commit.Signatures)
  THEN [res |-> IF talliedVotingPower <= votingPowerNeeded
                THEN Res("NotEnoughVotingPowerSigned", talliedVotingPower, votingPowerNeeded)
                ELSE Ok,
        examined |-> examined]
  ELSE VerifyCommitLoopUnverified(v, commit, i + 1,
                                  IF ForBlock(commit.Signatures[i])
                                  THEN Wrap(talliedVotingPower + v.Voters[i].VotingPower)
                                  ELSE talliedVotingPower,
                                  votingPowerNeeded, examined)

RECURSIVE VerifyCommitLoop(_, _, _, _, _, _)
VerifyCommitLoop(v, commit, i, talliedVotingPower, votingPowerNeeded, examined) ==
  IF i > Len(commit.Signatures)
  THEN [res |-> IF talliedVotingPower <= votingPowerNeeded
                THEN Res("NotEnoughVotingPowerSigned", talliedVotingPower, votingPowerNeeded)
                ELSE Ok,
        examined |-> examined]
  ELSE LET commitSig == commit.Signatures[i]
           voter == v.Voters[i]
       IN IF Absent(commitSig)
          THEN VerifyCommitLoop(v, commit, i + 1, talliedVotingPower, votingPowerNeeded, examined)
          ELSE IF ~VerifySignature(voter.PubKey, commitSig.Signature)
          THEN [res |-> Res("WrongSignature", i - 1, 0), examined |-> examined \cup {i - 1}]
          ELSE VerifyCommitLoop(v, commit, i + 1,
                                IF ForBlock(commitSig)
                                THEN Wrap(talliedVotingPower + voter.VotingPower)
                                ELSE talliedVotingPower,
                                votingPowerNeeded, examined \cup {i - 1})

\* a variant of the shared preconditions that does not compare heights
CommitPreconditionNoHeight(v, blockID, height, commit) ==
  IF Size(v) # Len(commit.Signatures)
  THEN Res("SignatureCountMismatch", Size(v), Len(commit.Signatures))
  ELSE IF blockID # commit.BlockID THEN Res("BlockIdMismatch", blockID, commit.BlockID)
  ELSE Ok

\* the checks made before any signature is looked at
CommitPrecondition(v, blockID, height, commit) ==
  IF Size(v) # Len(commit.Signatures)
  THEN Res("SignatureCountMismatch", Size(v), Len(commit.Signatures))
  ELSE IF height # commit.Height THEN Res("HeightMismatch", height, commit.Height)
  ELSE IF blockID # commit.BlockID THEN Res("BlockIdMismatch", blockID, commit.BlockID)
  ELSE Ok

\* voters.TotalVotingPower() * 2 / 3
TwoThirds(total) == GoDiv(Wrap(total * 2), 3)

VerifyCommit(v, blockID, height, commit) ==
  LET pre == CommitPrecondition(v, blockID, height, commit)
  IN IF pre # Ok THEN Outcome(pre, {}, 0, Untouched(v))
     ELSE LET t == TotalVotingPower(v)
          IN IF t.res = Panic THEN Outcome(Panic, {}, 0, t)
             ELSE LET r == VerifyCommitLoop(t.after, commit, 1, 0, TwoThirds(t.res.a), {})
                  IN Outcome(r.res, r.examined, TwoThirds(t.res.a), t)

RECURSIVE VerifyCommitLightLoop(_, _, _, _, _, _)
VerifyCommitLightLoop(v, commit, i, talliedVotingPower, votingPowerNeeded, examined) ==
  IF i > Len(commit.Signatures)
  THEN [res |-> Res("NotEnoughVotingPowerSigned", talliedVotingPower, votingPowerNeeded),
        examined |-> examined]
  ELSE LET commitSig == commit.Signatures[i]
           voter == v.Voters[i]
       IN IF ~ForBlock(commitSig)
          THEN VerifyCommitLightLoop(v, commit, i + 1, talliedVotingPower,
                                     votingPowerNeeded, examined)
          ELSE IF ~VerifySignature(voter.PubKey, commitSig.Signature)
          THEN [res |-> Res("WrongSignature", i - 1, 0), examined |-> examined \cup {i - 1}]
          ELSE IF Wrap(talliedVotingPower + voter.VotingPower) > votingPowerNeeded
          THEN [res |-> Ok, examined |-> examined \cup {i - 1}]
          ELSE VerifyCommitLightLoop(v, commit, i + 1,
                                     Wrap(talliedVotingPower + voter.VotingPower),
                                     votingPowerNeeded, examined \cup {i - 1})

VerifyCommitLight(v, blockID, height, commit) ==
  LET pre == CommitPrecondition(v, blockID, height, commit)
  IN IF pre # Ok THEN Outcome(pre, {}, 0, Untouched(v))
     ELSE LET t == TotalVotingPower(v)
          IN IF t.res = Panic THEN Outcome(Panic, {}, 0, t)
             ELSE LET r == VerifyCommitLightLoop(t.after, commit, 1, 0, TwoThirds(t.res.a), {})
                  IN Outcome(r.res, r.examined, TwoThirds(t.res.a), t)

\* a variant of the trusting scan that keeps no record of the voters seen
RECURSIVE TrustingLoopNoSeenVoters(_, _, _, _, _, _, _)
TrustingLoopNoSeenVoters(v, commit, i, talliedVotingPower, votingPowerNeeded, seenVoters, examined) ==
  IF i > Len(commit.Signatures)
  THEN [res |-> Res("NotEnoughVotingPowerSigned", talliedVotingPower, votingPowerNeeded),
        examined |-> examined]
  ELSE LET commitSig == commit.Signatures[i]
           g == GetByAddress(v, commitSig.ValidatorAddress)
       IN IF ~ForBlock(commitSig) \/ ~g.found
          THEN TrustingLoopNoSeenVoters(v, commit, i + 1, talliedVotingPower,
                                        votingPowerNeeded, seenVoters, examined)
          ELSE IF ~VerifySignature(g.val.PubKey, commitSig.Signature)
          THEN [res |-> Res("WrongSignature", i - 1, 0), examined |-> examined \cup {i - 1}]
          ELSE IF Wrap(talliedVotingPower + g.val.VotingPower) > votingPowerNeeded
          THEN [res |-> Ok, examined |-> examined \cup {i - 1}]
          ELSE TrustingLoopNoSeenVoters(v, commit, i + 1,
                                        Wrap(talliedVotingPower + g.val.VotingPower),
                                        votingPowerNeeded, seenVoters,
                                        examined \cup {i - 1})

\* seenVoters is a set of <<voter index, commit index>> pairs
RECURSIVE VerifyCommitLightTrustingLoop(_, _, _, _, _, _, _)
VerifyCommitLightTrustingLoop(v, commit, i, talliedVotingPower, votingPowerNeeded, seenVoters, examined) ==
  IF i > Len(commit.Signatures)
  THEN [res |-> Res("NotEnoughVotingPowerSigned", talliedVotingPower, votingPowerNeeded),
        examined |-> examined]
  ELSE LET commitSig == commit.Signatures[i]
           g == GetByAddress(v, commitSig.ValidatorAddress)
       IN IF ~ForBlock(commitSig) \/ ~g.found
          THEN VerifyCommitLightTrustingLoop(v, commit, i + 1, talliedVotingPower,
                                             votingPowerNeeded, seenVoters, examined)
          ELSE IF \E p \in seenVoters : p[1] = g.index
          THEN [res |-> ResWho("DoubleVote", g.val.Address,
                               (CHOOSE p \in seenVoters : p[1] = g.index)[2], i - 1),
                examined |-> examined]
          ELSE IF ~VerifySignature(g.val.PubKey, commitSig.Signature)
          THEN [res |-> Res("WrongSignature", i - 1, 0), examined |-> examined \cup {i - 1}]
          ELSE IF Wrap(talliedVotingPower + g.val.VotingPower) > votingPowerNeeded
          THEN [res |-> Ok, examined |-> examined \cup {i - 1}]
          ELSE VerifyCommitLightTrustingLoop(v, commit, i + 1,
                                             Wrap(talliedVotingPower + g.val.VotingPower),
                                             votingPowerNeeded,
                                             seenVoters \cup {<<g.index, i - 1>>},
                                             examined \cup {i - 1})

VerifyCommitLightTrusting(v, commit, trustLevel) ==
  IF trustLevel.Denominator = 0
  THEN Outcome(Res("ZeroDenominator", 0, 0), {}, 0, Untouched(v))
  ELSE LET t == TotalVotingPower(v)
       IN IF t.res = Panic THEN Outcome(Panic, {}, 0, t)
          ELSE LET m == safeMul(t.res.a, ToInt64(trustLevel.Numerator))
               IN IF m[2] THEN Outcome(Res("Overflow", 0, 0), {}, 0, t)
                  ELSE LET votingPowerNeeded ==
                             Wrap(GoDiv(m[1], ToInt64(trustLevel.Denominator)))
                           r == VerifyCommitLightTrustingLoop(t.after, commit, 1, 0,
                                                              votingPowerNeeded, {}, {})
                       IN Outcome(r.res, r.examined, votingPowerNeeded, t)

(* The two early-exit loops with the order of the scan made explicit: order
   is a sequence of indices of commit.Signatures, each entry staying paired
   with its own index, voter, flag and signature.  The program scans in
   index order, order = <<1, ..., n>>. *)

\* a variant of the light scan that stops at the first entry not for-block
RECURSIVE LightScanStoppingAtSkipped(_, _, _, _, _, _)
LightScanStoppingAtSkipped(v, commit, order, k, talliedVotingPower, votingPowerNeeded) ==
  IF k > Len(order)
  THEN Res("NotEnoughVotingPowerSigned", talliedVotingPower, votingPowerNeeded)
  ELSE LET commitSig == commit.Signatures[order[k]]
           voter == v.Voters[order[k]]
       IN IF ~ForBlock(commitSig)
          THEN Res("NotEnoughVotingPowerSigned", talliedVotingPower, votingPowerNeeded)
          ELSE IF ~VerifySignature(voter.PubKey, commitSig.Signature)
          THEN Res("WrongSignature", order[k] - 1, 0)
          ELSE IF Wrap(talliedVotingPower + voter.VotingPower) > votingPowerNeeded
          THEN Ok
          ELSE LightScanStoppingAtSkipped(v, commit, order, k + 1,
                                          Wrap(talliedVotingPower + voter.VotingPower),
                                          votingPowerNeeded)

RECURSIVE VerifyCommitLightScan(_, _, _, _, _, _)
VerifyCommitLightScan(v, commit, order, k, talliedVotingPower, votingPowerNeeded) ==
  IF k > Len(order)
  THEN Res("NotEnoughVotingPowerSigned", talliedVotingPower, votingPowerNeeded)
  ELSE LET commitSig == commit.Signatures[order[k]]
           voter == v.Voters[order[k]]
       IN IF ~ForBlock(commitSig)
          THEN VerifyCommitLightScan(v, commit, order, k + 1, talliedVotingPower,
                                     votingPowerNeeded)
          ELSE IF ~VerifySignature(voter.PubKey, commitSig.Signature)
          THEN Res("WrongSignature", order[k] - 1, 0)
          ELSE IF Wrap(talliedVotingPower + voter.VotingPower) > votingPowerNeeded
          THEN Ok
          ELSE VerifyCommitLightScan(v, commit, order, k + 1,
                                     Wrap(talliedVotingPower + voter.VotingPower),
                                     votingPowerNeeded)

RECURSIVE VerifyCommitLightTrustingScan(_, _, _, _, _, _, _)
VerifyCommitLightTrustingScan(v, commit, order, k, talliedVotingPower, votingPowerNeeded, seenVoters) ==
  IF k > Len(order)
  THEN Res("NotEnoughVotingPowerSigned", talliedVotingPower, votingPowerNeeded)
  ELSE LET commitSig == commit.Signatures[order[k]]
           g == GetByAddress(v, commitSig.ValidatorAddress)
       IN IF ~ForBlock(commitSig) \/ ~g.found
          THEN VerifyCommitLightTrustingScan(v, commit, order, k + 1, talliedVotingPower,
                                             votingPowerNeeded, seenVoters)
          ELSE IF \E p \in seenVoters : p[1] = g.index
          THEN ResWho("DoubleVote", g.val.Address,
                      (CHOOSE p \in seenVoters : p[1] = g.index)[2], order[k] - 1)
          ELSE IF ~VerifySignature(g.val.PubKey, commitSig.Signature)
          THEN Res("WrongSignature", order[k] - 1, 0)
          ELSE IF Wrap(talliedVotingPower + g.val.VotingPower) > votingPowerNeeded
          THEN Ok
          ELSE VerifyCommitLightTrustingScan(v, commit, order, k + 1,
                                             Wrap(talliedVotingPower + g.val.VotingPower),
                                             votingPowerNeeded,
                                             seenVoters \cup {<<g.index, order[k] - 1>>})

\* the orders in which n entries can be scanned
ScanOrders(n) ==
  {order \in [1..n -> 1..n] : \A i, j \in 1..n : i # j => order[i] # order[j]}

IndexOrder(n) == [i \in 1..n |-> i]

(* ------------------------ BitArray wire decoding ---------------------- *)

(* proto/ostracon/libs/bits/types.pb.go.  Bytes are the program's bytes: 7
   payload bits and a continuation bit.  uint64, int64 and int are words of
   IntBits bits, so that, as in the program, the last byte a varint may have
   contributes only its lowest bit (64 = 9 * 7 + 1, IntBits = 1 * 7 + 1). *)

ErrIntOverflowTypes == "ErrIntOverflowTypes"
ErrInvalidLengthTypes == "ErrInvalidLengthTypes"
ErrUnexpectedEndOfGroupTypes == "ErrUnexpectedEndOfGroupTypes"
ErrUnexpectedEOF == "io.ErrUnexpectedEOF"

\* the bytes inputs are made of: tags of fields 1, 2 and 3 with several wire
\* types, small values, and bytes with the continuation bit
Bytes == {0, 1, 2, 8, 16, 18, 26, 27, 28, 29, 128, 255}

ByteStrings == ListsUpTo(Bytes, MaxBytes)

\* int32(x) for x >= 0: the low half-word, signed
ToInt32(x) ==
  LET h == 2^(IntBits \div 2)
      r == x % h
  IN IF r >= h \div 2 THEN r - h ELSE r

\* dAtA[i], and whether the index is in range
ByteAt(dAtA, i) == IF i < Len(dAtA) THEN dAtA[i + 1] ELSE 0

\* the varint loop: v |= uint64(b&0x7F) << shift until a byte below 0x80.
\* v is the word the program builds, exact the value the bytes encode, read
\* the highest index read so far (-1 for none)
RECURSIVE decodeVarint(_, _, _, _, _, _)
decodeVarint(dAtA, iNdEx, shift, v, exact, read) ==
  IF shift >= IntBits
  THEN [err |-> ErrIntOverflowTypes, v |-> v, exact |-> exact, iNdEx |-> iNdEx, read |-> read]
  ELSE IF iNdEx >= Len(dAtA)
  THEN [err |-> ErrUnexpectedEOF, v |-> v, exact |-> exact, iNdEx |-> iNdEx, read |-> read]
  ELSE LET b == ByteAt(dAtA, iNdEx)
           v2 == v + (((b % 128) * 2^shift) % 2^IntBits)
           exact2 == exact + (b % 128) * 2^shift
       IN IF b < 128
          THEN [err |-> "nil", v |-> v2, exact |-> exact2, iNdEx |-> iNdEx + 1,
                read |-> iNdEx]
          ELSE decodeVarint(dAtA, iNdEx + 1, shift + 7, v2, exact2, iNdEx)

Varint(dAtA, iNdEx) == decodeVarint(dAtA, iNdEx, 0, 0, 0, -1)

Max(a, b) == IF a >= b THEN a ELSE b

SkipResult(n, err, read, lossy) == [n |-> n, err |-> err, read |-> read, lossy |-> lossy]

SkipState(err, iNdEx, depth, read, lossy) ==
  [err |-> err, iNdEx |-> iNdEx, depth |-> depth, read |-> read, lossy |-> lossy]

\* skipTypes, wire type 0: the varint x is passed over, its value is not kept
skipVarint(x, depth, read, lossy) == SkipState(x.err, x.iNdEx, depth, Max(read, x.read), lossy)

\* skipTypes, wire type 2: the varint x is the length of the bytes passed over
skipLength(x, depth, read, lossy) ==
  IF x.err # "nil" THEN SkipState(x.err, x.iNdEx, depth, Max(read, x.read), lossy)
  ELSE IF ToInt64(x.v) < 0
  THEN SkipState(ErrInvalidLengthTypes, x.iNdEx, depth, Max(read, x.read), lossy)
  ELSE SkipState("nil", Wrap(x.iNdEx + ToInt64(x.v)), depth, Max(read, x.read),
                 lossy \/ x.v # x.exact)

\* skipTypes, the switch on the wire type of the tag that ended before iNdEx
skipSwitch(dAtA, iNdEx, wireType, depth, read, lossy) ==
  CASE wireType = 0 -> skipVarint(Varint(dAtA, iNdEx), depth, read, lossy)
    [] wireType = 1 -> SkipState("nil", Wrap(iNdEx + 8), depth, read, lossy)
    [] wireType = 2 -> skipLength(Varint(dAtA, iNdEx), depth, read, lossy)
    [] wireType = 3 -> SkipState("nil", iNdEx, depth + 1, read, lossy)
    [] wireType = 4 ->
         SkipState(IF depth = 0 THEN ErrUnexpectedEndOfGroupTypes ELSE "nil",
                   iNdEx, depth - 1, read, lossy)
    [] wireType = 5 -> SkipState("nil", Wrap(iNdEx + 4), depth, read, lossy)
    [] OTHER -> SkipState("illegal wireType", iNdEx, depth, read, lossy)

RECURSIVE skipTypesLoop(_, _, _, _, _)

\* skipTypes, the end of one iteration: body is the state after the switch
skipNext(dAtA, body) ==
  IF body.err # "nil" THEN SkipResult(0, body.err, body.read, body.lossy)
  ELSE IF body.iNdEx < 0 THEN SkipResult(0, ErrInvalidLengthTypes, body.read, body.lossy)
  ELSE IF body.depth = 0 THEN SkipResult(body.iNdEx, "nil", body.read, body.lossy)
  ELSE skipTypesLoop(dAtA, body.iNdEx, body.depth, body.read, body.lossy)

\* skipTypes, one iteration once its tag is decoded
skipTag(dAtA, tag, depth, read, lossy) ==
  IF tag.err # "nil" THEN SkipResult(0, tag.err, Max(read, tag.read), lossy)
  ELSE skipNext(dAtA, skipSwitch(dAtA, tag.iNdEx, tag.v % 8, depth, Max(read, tag.read),
                                 lossy \/ tag.v # tag.exact))

\* the loop of skipTypes over the slice dAtA; lossy: a varint lost bits
skipTypesLoop(dAtA, iNdEx, depth, read, lossy) ==
  IF iNdEx >= Len(dAtA) THEN SkipResult(0, ErrUnexpectedEOF, read, lossy)
  ELSE skipTag(dAtA, Varint(dAtA, iNdEx), depth, read, lossy)

skipTypes(dAtA) == skipTypesLoop(dAtA, 0, 0, -1, FALSE)

BitArray(bits, elems) == [Bits |-> bits, Elems |-> elems]

FieldResult(err, iNdEx, m, read, lossy) ==
  [err |-> err, iNdEx |-> iNdEx, m |-> m, read |-> read, lossy |-> lossy]

\* one element x of a packed field
RECURSIVE packedLoop(_, _, _, _, _, _)

packedElem(dAtA, x, postIndex, m, read, lossy) ==
  IF x.err # "nil" THEN FieldResult(x.err, x.iNdEx, m, Max(read, x.read), lossy)
  ELSE packedLoop(dAtA, x.iNdEx, postIndex, BitArray(m.Bits, Append(m.Elems, x.v)),
                  Max(read, x.read), lossy \/ x.v # x.exact)

\* the loop over the elements of a packed field
packedLoop(dAtA, iNdEx, postIndex, m, read, lossy) ==
  IF iNdEx >= postIndex THEN FieldResult("nil", iNdEx, m, read, lossy)
  ELSE packedElem(dAtA, Varint(dAtA, iNdEx), postIndex, m, read, lossy)

\* field 1, Bits: the varint x
unmarshalBits(x, m, read, lossy) ==
  FieldResult(x.err, x.iNdEx, BitArray(ToInt64(x.v), m.Elems), Max(read, x.read),
              lossy \/ (x.err = "nil" /\ x.v # x.exact))

\* field 2, Elems, wire type 0: the varint x
unmarshalElem(x, m, read, lossy) ==
  IF x.err # "nil" THEN FieldResult(x.err, x.iNdEx, m, Max(read, x.read), lossy)
  ELSE FieldResult("nil", x.iNdEx, BitArray(m.Bits, Append(m.Elems, x.v)),
                   Max(read, x.read), lossy \/ x.v # x.exact)

\* field 2, Elems, wire type 2, once the end of the packed bytes is computed
unmarshalPackedTo(dAtA, iNdEx, postIndex, m, read, lossy) ==
  IF postIndex < 0 THEN FieldResult(ErrInvalidLengthTypes, iNdEx, m, read, lossy)
  ELSE IF postIndex > Len(dAtA) THEN FieldResult(ErrUnexpectedEOF, iNdEx, m, read, lossy)
  ELSE packedLoop(dAtA, iNdEx, postIndex, m,
                  IF postIndex > iNdEx THEN Max(read, postIndex - 1) ELSE read, lossy)

\* field 2, Elems, wire type 2: the varint x is the length of the packed bytes
unmarshalPacked(dAtA, x, m, read, lossy) ==
  IF x.err # "nil" THEN FieldResult(x.err, x.iNdEx, m, Max(read, x.read), lossy)
  ELSE IF ToInt64(x.v) < 0
  THEN FieldResult(ErrInvalidLengthTypes, x.iNdEx, m, Max(read, x.read), lossy)
  ELSE unmarshalPackedTo(dAtA, x.iNdEx, Wrap(x.iNdEx + ToInt64(x.v)), m,
                         Max(read, x.read), lossy \/ x.v # x.exact)

\* an unknown field: skippy is the result of skipTypes on the slice from preIndex
unmarshalSkipped(dAtA, preIndex, skippy, m, read) ==
  IF skippy.err # "nil" THEN FieldResult(skippy.err, preIndex, m, read, skippy.lossy)
  ELSE IF skippy.n < 0 \/ Wrap(preIndex + skippy.n) < 0
  THEN FieldResult(ErrInvalidLengthTypes, preIndex, m, read, skippy.lossy)
  ELSE IF preIndex + skippy.n > Len(dAtA)
  THEN FieldResult(ErrUnexpectedEOF, preIndex, m, read, skippy.lossy)
  ELSE FieldResult("nil", preIndex + skippy.n, m, read, skippy.lossy)

\* the highest index of dAtA read by skipTypes on the slice from preIndex
SkippedRead(preIndex, skippy) == IF skippy.read < 0 THEN -1 ELSE preIndex + skippy.read

\* the switch on the field number of the tag that ended before iNdEx
unmarshalSwitch(dAtA, preIndex, iNdEx, fieldNum, wireType, m, read, lossy) ==
  IF wireType = 4
  THEN FieldResult("wiretype end group for non-group", iNdEx, m, read, lossy)
  ELSE IF fieldNum <= 0 THEN FieldResult("illegal tag", iNdEx, m, read, lossy)
  ELSE IF fieldNum = 1
  THEN IF wireType # 0
       THEN FieldResult("wrong wireType for field Bits", iNdEx, m, read, lossy)
       ELSE unmarshalBits(Varint(dAtA, iNdEx), m, read, lossy)
  ELSE IF fieldNum = 2
  THEN IF wireType = 0 THEN unmarshalElem(Varint(dAtA, iNdEx), m, read, lossy)
       ELSE IF wireType = 2 THEN unmarshalPacked(dAtA, Varint(dAtA, iNdEx), m, read, lossy)
       ELSE FieldResult("wrong wireType for field Elems", iNdEx, m, read, lossy)
  ELSE unmarshalSkipped(dAtA, preIndex, skipTypes(SubSeq(dAtA, preIndex + 1, Len(dAtA))),
                        m, SkippedRead(preIndex, skipTypes(SubSeq(dAtA, preIndex + 1, Len(dAtA)))))

\* one iteration of the loop of Unmarshal once its tag is decoded
unmarshalTag(dAtA, preIndex, tag, m) ==
  IF tag.err # "nil" THEN FieldResult(tag.err, tag.iNdEx, m, tag.read, FALSE)
  ELSE unmarshalSwitch(dAtA, preIndex, tag.iNdEx, ToInt32(tag.v \div 8), tag.v % 8, m,
                       tag.read, tag.v # tag.exact)

\* one iteration of the loop of Unmarshal: the field that starts at preIndex
unmarshalField(dAtA, preIndex, m) == unmarshalTag(dAtA, preIndex, Varint(dAtA, preIndex), m)

\* the check after the loop
unmarshalReturn(dAtA, iNdEx) == IF iNdEx > Len(dAtA) THEN ErrUnexpectedEOF ELSE "nil"

\* BitArray.Unmarshal as a whole
RECURSIVE unmarshalLoop(_, _, _)
unmarshalLoop(dAtA, iNdEx, m) ==
  IF iNdEx >= Len(dAtA) THEN [err |-> unmarshalReturn(dAtA, iNdEx), m |-> m]
  ELSE LET f == unmarshalField(dAtA, iNdEx, m)
       IN IF f.err # "nil" THEN [err |-> f.err, m |-> f.m]
          ELSE unmarshalLoop(dAtA, f.iNdEx, f.m)

Unmarshal(dAtA) == unmarshalLoop(dAtA, 0, BitArray(0, <<>>))

(* --------------------------- evidence pool --------------------------- *)

\* the height of the state the pool was created with, and the age limit of
\* its consensus parameters
LastBlockHeight == MaxHeight

MaxAgeNumBlocks == 1

\* Expired: the time of the evidence is older than MaxAgeDuration
MockEvidence(height, expired) == [Height |-> height, Expired |-> expired]

Evidences == {MockEvidence(h, x) : h \in 0..MaxHeight, x \in BOOLEAN}

EvidenceLists == ListsUpTo(Evidences, MaxEvidence)

\* info: what the store holds of each evidence; evidenceList: the pending
\* evidence offered to consumers; signals: the notifications sent
Pool(info, evidenceList, signals) ==
  [info |-> info, evidenceList |-> evidenceList, signals |-> signals]

NewPool == Pool([e \in Evidences |-> "none"], {}, 0)

TooOld(evidence) == LastBlockHeight - evidence.Height > MaxAgeNumBlocks

\* the error of an evidence the pool does not admit, "nil" if it admits it
VerifyEvidence(evidence) ==
  IF TooOld(evidence) /\ evidence.Expired THEN "too old and expired"
  ELSE IF TooOld(evidence) THEN "too old"
  ELSE IF evidence.Expired THEN "expired"
  ELSE "nil"

\* add_evidence: [err, pool]
AddEvidence(p, evidence) ==
  IF VerifyEvidence(evidence) # "nil" THEN [err |-> VerifyEvidence(evidence), pool |-> p]
  ELSE IF p.info[evidence] # "none" THEN [err |-> "nil", pool |-> p]
  ELSE [err |-> "nil",
        pool |-> Pool([p.info EXCEPT ![evidence] = "pending"],
                      p.evidenceList \cup {evidence}, p.signals + 1)]

IsCommitted(p, evidence) == p.info[evidence] = "committed"

\* a mark that reaches only the evidence the pool holds as pending
MarkPendingAsCommitted(p, evidenceList) ==
  Pool([e \in Evidences |->
          IF p.info[e] = "pending" /\ \E i \in 1..Len(evidenceList) : evidenceList[i] = e
          THEN "committed" ELSE p.info[e]],
       p.evidenceList \ {evidenceList[i] : i \in 1..Len(evidenceList)},
       p.signals)

\* mark_evidence_as_committed
MarkEvidenceAsCommitted(p, evidenceList) ==
  Pool([e \in Evidences |->
          IF \E i \in 1..Len(evidenceList) : evidenceList[i] = e
          THEN "committed" ELSE p.info[e]],
       p.evidenceList \ {evidenceList[i] : i \in 1..Len(evidenceList)},
       p.signals)

(* ------------------------------ actions ------------------------------ *)

\* where a reader thread is: the call it is in and the step it is at
At(op, at) == [op |-> op, at |-> at]

Idle == [r \in 1..NumReaders |-> At("none", "idle")]

Init ==
  /\ built = FALSE
  /\ vs = NoSet
  /\ call = [op |-> "none", arg |-> <<>>, ret |-> Ok]
  /\ pc = Idle
  /\ writes = 0
  /\ pool = NewPool
  /\ seen = [added |-> {}, marked |-> {}]

\* a behaviour builds one voter set and then uses it
Fresh == call.op = "none"

\* a constructor's result becomes the voter set of the behaviour
Construct(op, arg, r) ==
  /\ built' = (r.res = Ok)
  /\ vs' = r.set
  /\ call' = [op |-> op, arg |-> arg, ret |-> r.res]
  /\ pc' = Idle
  /\ writes' = 0
  /\ UNCHANGED <<pool, seen>>

NewVoterSet ==
  /\ Fresh
  /\ \E valz \in ValidatorLists :
       \E sorted \in SortedArrangements(valz) :
         Construct("NewVoterSet", valz, NewVoterSetSorted(sorted))

ToVoterAll ==
  /\ Fresh
  /\ \E validators \in ValidatorSets :
       \E sorted \in SortedArrangements(validators) :
         Construct("ToVoterAll", validators, NewVoterSetSorted(sorted))

SelectVoterPassThrough ==
  /\ Fresh
  /\ \E validators \in ValidatorSets, proofHash \in ProofHashes :
    /\ IsPassThrough(validators, proofHash)
    /\ LET u == updateTotalVotingPower(validators)
       IN Construct("SelectVoter",
                    [validators |-> validators, proofHash |-> proofHash, sampled |-> FALSE],
                    IF u.panicked THEN [res |-> Panic, set |-> NoSet]
                    ELSE [res |-> Ok,
                          set |-> VoterSet(copyValidatorListShallow(validators), u.sum)])

SelectVoterSampling ==
  /\ Fresh
  /\ \E validators \in ValidatorSets, proofHash \in ProofHashes :
    /\ ~IsPassThrough(validators, proofHash)
    /\ \E win \in SamplerOutcomes(validators) :
         \E sorted \in SortedArrangements(SelectedVals(validators, win)) :
           Construct("SelectVoter",
                     [validators |-> validators, proofHash |-> proofHash,
                      sampled |-> TRUE, win |-> win],
                     NewVoterSetSorted(sorted))

CopySet ==
  /\ built
  /\ vs' = Copy(vs)
  /\ call' = [op |-> "Copy", arg |-> vs, ret |-> Ok]
  /\ UNCHANGED <<built, pc, writes, pool, seen>>

\* a message arriving from the wire or from the store
FromWire ==
  /\ Fresh
  /\ \E vp \in ProtoSets :
    LET r == VoterSetFromProto(vp)
    IN Construct("VoterSetFromProto", vp, [res |-> r.err, set |-> IF r.err = Ok THEN r.set ELSE NoSet])

EncodeToProto ==
  /\ built
  /\ call' = [op |-> "ToProto", arg |-> vs, ret |-> ToProto(vs)]
  /\ UNCHANGED <<built, vs, pc, writes, pool, seen>>

\* the message just encoded is decoded again
RoundTrip ==
  /\ built
  /\ call.op = "ToProto"
  /\ LET r == VoterSetFromProto(call.ret)
     IN /\ built' = (r.err = Ok)
        /\ vs' = IF r.err = Ok THEN r.set ELSE NoSet
        /\ call' = [op |-> "RoundTrip", arg |-> call.arg, ret |-> r.err]
        /\ pc' = Idle
        /\ writes' = 0
  /\ UNCHANGED <<pool, seen>>

ReadTotalVotingPower ==
  /\ built
  /\ LET t == TotalVotingPower(vs)
     IN /\ vs' = t.after
        /\ call' = [op |-> "TotalVotingPower", arg |-> vs, ret |-> t.res]
        /\ writes' = IF t.wrote THEN 1 ELSE writes
  /\ UNCHANGED <<built, pc, pool, seen>>

Next ==
  \/ NewVoterSet
  \/ ToVoterAll
  \/ SelectVoterPassThrough
  \/ SelectVoterSampling
  \/ CopySet
  \/ FromWire
  \/ EncodeToProto
  \/ RoundTrip
  \/ ReadTotalVotingPower

Spec == Init /\ [][Next]_vars

\* a behaviour verifies one commit against its voter set, fresh from its
\* constructor or after a read of the total
AtRest ==
  /\ built
  /\ call.op \in {"NewVoterSet", "VoterSetFromProto", "SelectVoter", "ToVoterAll",
                  "TotalVotingPower"}

\* the caller verifies height 1, block id 1
Verified(op, commit, trustLevel, o) ==
  /\ vs' = o.after
  /\ writes' = IF o.wrote THEN 1 ELSE writes
  /\ call' = [op |-> op,
              arg |-> [commit |-> commit, height |-> 1, blockID |-> 1,
                       trustLevel |-> trustLevel, voters |-> vs],
              ret |-> o.res, examined |-> o.examined, needed |-> o.needed]
  /\ UNCHANGED <<built, pc, pool, seen>>

CallVerifyCommit ==
  /\ AtRest
  /\ \E commit \in Commits :
       Verified("VerifyCommit", commit, Fraction(2, 3), VerifyCommit(vs, 1, 1, commit))

CallVerifyCommitLight ==
  /\ AtRest
  /\ \E commit \in Commits :
       Verified("VerifyCommitLight", commit, Fraction(2, 3),
                VerifyCommitLight(vs, 1, 1, commit))

CallVerifyCommitLightTrusting ==
  /\ AtRest
  /\ \E commit \in Commits, trustLevel \in TrustLevels :
       Verified("VerifyCommitLightTrusting", commit, trustLevel,
                VerifyCommitLightTrusting(vs, commit, trustLevel))

VerifyNext ==
  \/ NewVoterSet
  \/ FromWire
  \/ ReadTotalVotingPower
  \/ CallVerifyCommit
  \/ CallVerifyCommitLight
  \/ CallVerifyCommitLightTrusting

VerifySpec == Init /\ [][VerifyNext]_vars

(* ------------------------ concurrent readers ------------------------- *)

\* calls that read the total through TotalVotingPower()
LazyReaders ==
  {"TotalVotingPower", "VerifyCommit", "VerifyCommitLight", "VerifyCommitLightTrusting"}

\* calls that only read Voters or the cached field
PureReaders == {"Hash", "HasAddress", "GetByAddress", "GetByIndex", "ToProto"}

\* a thread enters a read call on the shared set
Enter(r) ==
  /\ built
  /\ pc[r].at = "idle"
  /\ \E op \in LazyReaders \cup PureReaders :
       pc' = [pc EXCEPT ![r] = At(op, IF op \in LazyReaders THEN "check" ELSE "read")]
  /\ UNCHANGED <<built, vs, call, writes, pool, seen>>

\* TotalVotingPower: if voters.totalVotingPower == 0
CheckCache(r) ==
  /\ pc[r].at = "check"
  /\ pc' = [pc EXCEPT ![r] = At(pc[r].op, IF vs.totalVotingPower = 0 THEN "update" ELSE "read")]
  /\ UNCHANGED <<built, vs, call, writes, pool, seen>>

\* updateTotalVotingPower: sums the powers and stores the cached field
StoreCache(r) ==
  /\ pc[r].at = "update"
  /\ LET u == updateTotalVotingPower(vs.Voters)
     IN IF u.panicked
        THEN /\ pc' = [pc EXCEPT ![r] = At("none", "idle")]
             /\ UNCHANGED <<vs, writes>>
        ELSE /\ vs' = VoterSet(vs.Voters, u.sum)
             /\ writes' = IF writes < NumReaders THEN writes + 1 ELSE writes
             /\ pc' = [pc EXCEPT ![r] = At(pc[r].op, "read")]
  /\ UNCHANGED <<built, call, pool, seen>>

\* the rest of the call reads the set and returns
ReadAndReturn(r) ==
  /\ pc[r].at = "read"
  /\ pc' = [pc EXCEPT ![r] = At("none", "idle")]
  /\ UNCHANGED <<built, vs, call, writes, pool, seen>>

RaceNext ==
  \/ NewVoterSet
  \/ FromWire
  \/ \E r \in 1..NumReaders : Enter(r)
  \/ \E r \in 1..NumReaders : CheckCache(r)
  \/ \E r \in 1..NumReaders : StoreCache(r)
  \/ \E r \in 1..NumReaders : ReadAndReturn(r)

RaceSpec == Init /\ [][RaceNext]_vars

(* ------------------------- decoding a BitArray ------------------------ *)

\* a call of Unmarshal on a fresh BitArray; fields: the starts of the fields
\* decoded so far
BeginUnmarshal ==
  /\ Fresh
  /\ \E dAtA \in ByteStrings :
       call' = [op |-> "Unmarshal", arg |-> dAtA, ret |-> "nil", at |-> "loop",
                iNdEx |-> 0, m |-> BitArray(0, <<>>), read |-> -1, lossy |-> FALSE,
                fields |-> {}]
  /\ UNCHANGED <<built, vs, pc, writes, pool, seen>>

UnmarshalField ==
  /\ call.op = "Unmarshal"
  /\ call.at = "loop"
  /\ call.iNdEx < Len(call.arg)
  /\ LET f == unmarshalField(call.arg, call.iNdEx, call.m)
     IN call' = [call EXCEPT !.ret = f.err,
                             !.at = IF f.err = "nil" THEN "loop" ELSE "done",
                             !.iNdEx = f.iNdEx,
                             !.m = f.m,
                             !.read = Max(call.read, f.read),
                             !.lossy = call.lossy \/ f.lossy,
                             !.fields = call.fields \cup {call.iNdEx}]
  /\ UNCHANGED <<built, vs, pc, writes, pool, seen>>

UnmarshalReturn ==
  /\ call.op = "Unmarshal"
  /\ call.at = "loop"
  /\ call.iNdEx >= Len(call.arg)
  /\ call' = [call EXCEPT !.ret = unmarshalReturn(call.arg, call.iNdEx), !.at = "done"]
  /\ UNCHANGED <<built, vs, pc, writes, pool, seen>>

UnmarshalNext ==
  \/ BeginUnmarshal
  \/ UnmarshalField
  \/ UnmarshalReturn

UnmarshalSpec == Init /\ [][UnmarshalNext]_vars

(* --------------------------- the evidence pool ------------------------ *)

CallAddEvidence ==
  /\ \E evidence \in Evidences :
       LET r == AddEvidence(pool, evidence)
       IN /\ pool' = r.pool
          /\ call' = [op |-> "AddEvidence", arg |-> evidence, ret |-> r.err]
          /\ seen' = [seen EXCEPT !.added = IF r.err = "nil" THEN @ \cup {evidence} ELSE @]
  /\ UNCHANGED <<built, vs, pc, writes>>

CallIsCommitted ==
  /\ \E evidence \in Evidences :
       call' = [op |-> "IsCommitted", arg |-> evidence, ret |-> IsCommitted(pool, evidence)]
  /\ UNCHANGED <<built, vs, pc, writes, pool, seen>>

CallMarkEvidenceAsCommitted ==
  /\ \E evidenceList \in EvidenceLists :
       /\ pool' = MarkEvidenceAsCommitted(pool, evidenceList)
       /\ call' = [op |-> "MarkEvidenceAsCommitted", arg |-> evidenceList, ret |-> "nil"]
       /\ seen' = [seen EXCEPT !.marked = @ \cup {evidenceList[i] : i \in 1..Len(evidenceList)}]
  /\ UNCHANGED <<built, vs, pc, writes>>

PoolNext ==
  \/ CallAddEvidence
  \/ CallIsCommitted
  \/ CallMarkEvidenceAsCommitted

PoolSpec == Init /\ [][PoolNext]_vars

(* ===================================================================== *)
(* Properties of the verifiers (checked under VerifySpec)                  *)
(* ===================================================================== *)

PositionalOps == {"VerifyCommit", "VerifyCommitLight"}

Sigs == call.arg.commit.Signatures

\* the value TotalVotingPower() hands to the verifier
ReturnedTotal == TotalVotingPower(call.arg.voters).res.a

RECURSIVE PositionalPower(_, _, _)
PositionalPower(voters, sigs, i) ==
  IF i > Len(sigs) THEN 0
  ELSE (IF ForBlock(sigs[i]) THEN voters[i].VotingPower ELSE 0)
       + PositionalPower(voters, sigs, i + 1)

\* entry i of the commit is for-block and its address is found in the set
Counts(i) == ForBlock(Sigs[i]) /\ GetByAddress(vs, Sigs[i].ValidatorAddress).found

VoterOf(i) == GetByAddress(vs, Sigs[i].ValidatorAddress)

RECURSIVE TrustedPower(_)
TrustedPower(i) ==
  IF i > Len(Sigs) THEN 0
  ELSE (IF Counts(i) THEN VoterOf(i).val.VotingPower ELSE 0) + TrustedPower(i + 1)

\* the entries at which a voter already seen at an earlier entry signs again
SecondOccurrences ==
  {j \in 1..Len(Sigs) :
     Counts(j) /\ \E i \in 1..(j - 1) : Counts(i) /\ VoterOf(i).index = VoterOf(j).index}

PresentSigsValidByIndex ==
  \A i \in 1..Len(Sigs) :
    ~Absent(Sigs[i]) => VerifySignature(vs.Voters[i].PubKey, Sigs[i].Signature)

PresentSigsValidByAddress ==
  \A i \in 1..Len(Sigs) :
    ~Absent(Sigs[i]) => VerifySignature(Sigs[i].ValidatorAddress, Sigs[i].Signature)

AcceptedIffAboveTwoThirds(T) ==
  /\ (call.ret = Ok) <=> (3 * T > 2 * ReturnedTotal)
  /\ call.ret # Ok => call.ret.kind = "NotEnoughVotingPowerSigned"

\* C1: for each of the three verifiers (the trusting one at trust level 2/3),
\* when the preconditions hold, every present signature is valid and no voter
\* signs twice, the commit is accepted if and only if 3 * T > 2 * TotalVotingPower,
\* T being the power of the for-block signatures, and is otherwise rejected
\* with ErrNotEnoughVotingPowerSigned.
C1_ThresholdStrictness ==
  /\ (/\ call.op \in PositionalOps
      /\ CommitPrecondition(vs, 1, 1, call.arg.commit) = Ok
      /\ call.ret # Panic
      /\ PresentSigsValidByIndex)
     => AcceptedIffAboveTwoThirds(PositionalPower(vs.Voters, Sigs, 1))
  /\ (/\ call.op = "VerifyCommitLightTrusting"
      /\ call.arg.trustLevel = Fraction(2, 3)
      /\ call.ret.kind \notin {"panic", "Overflow"}
      /\ PresentSigsValidByAddress
      /\ SecondOccurrences = {})
     => AcceptedIffAboveTwoThirds(TrustedPower(1))

\* the cached total of the set is the sum of its voters' powers
ConsistentTotal(v) == v.totalVotingPower \in {0, SumPowers(v.Voters)}

\* C1 on the voter sets whose cached total is the sum of the powers: there the
\* threshold is strict for all three verifiers
ThresholdStrictOnConsistentSets ==
  (call.op \in PositionalOps \cup {"VerifyCommitLightTrusting"}
   /\ ConsistentTotal(call.arg.voters))
  => C1_ThresholdStrictness

\* the non-absent entries whose signature fails against the voter at the
\* same index
BadByIndex ==
  {i \in 1..Len(Sigs) :
     ~Absent(Sigs[i]) /\ ~VerifySignature(vs.Voters[i].PubKey, Sigs[i].Signature)}

Lowest(S) == CHOOSE i \in S : \A j \in S : i <= j

\* C2: VerifyCommit checks every non-absent signature: if one fails against
\* the voter at its index, VerifyCommit returns the wrong-signature error
\* naming the lowest such index and never returns success; absent entries are
\* skipped and cause no error.
C2_EverySignatureChecked ==
  (/\ call.op = "VerifyCommit"
   /\ CommitPrecondition(vs, 1, 1, call.arg.commit) = Ok)
  => /\ BadByIndex # {} => call.ret = Res("WrongSignature", Lowest(BadByIndex) - 1, 0)
     /\ call.ret.kind = "WrongSignature" => (call.ret.a + 1) \in BadByIndex
     /\ \A i \in call.examined : ~Absent(Sigs[i + 1])

\* C2 for the calls that return: every non-absent signature is verified, the
\* lowest failing index is reported, absent entries are never verified
EverySignatureCheckedWhenReturning ==
  (call.op = "VerifyCommit" /\ call.ret # Panic) => C2_EverySignatureChecked

\* the wrapped tally after the counted entries 1..k of the trusting scan
RECURSIVE TalliedThrough(_)
TalliedThrough(k) ==
  IF k = 0 THEN 0
  ELSE IF Counts(k) THEN Wrap(TalliedThrough(k - 1) + VoterOf(k).val.VotingPower)
       ELSE TalliedThrough(k - 1)

\* the trusting call got past its trust-level checks and scanned the commit
Scanned ==
  /\ call.op = "VerifyCommitLightTrusting"
  /\ call.ret.kind \notin {"ZeroDenominator", "Overflow", "panic"}

FirstRepeat == Lowest(SecondOccurrences)

FirstOccurrence(j) ==
  Lowest({i \in 1..(j - 1) : Counts(i) /\ VoterOf(i).index = VoterOf(j).index})

\* no counted entry before j ends the scan: each verifies and leaves the
\* tally at or below the threshold
ScanReaches(j) ==
  \A k \in 1..(j - 1) :
    Counts(k) => /\ VerifySignature(VoterOf(k).val.PubKey, Sigs[k].Signature)
                 /\ TalliedThrough(k) <= call.needed

\* C3 (as stated): VerifyCommitLightTrusting rejects with a double-vote error
\* every commit holding two for-block signatures of the same voter, also when
\* the signatures before the second one already exceed the threshold.
C3_DoubleVoteAlwaysRejected ==
  (Scanned /\ PresentSigsValidByAddress /\ SecondOccurrences # {})
  => call.ret.kind = "DoubleVote"

\* C3 (amended): VerifyCommitLightTrusting returns the double-vote error,
\* naming the voter and both indices, exactly when its scan reaches the
\* second for-block signature of a voter, i.e. when no earlier counted entry
\* has a bad signature or lifts the tally above the threshold; otherwise the
\* earlier entry decides (success or wrong signature).
C3_DoubleVoteWhenReached ==
  Scanned =>
    /\ (SecondOccurrences # {} /\ ScanReaches(FirstRepeat))
       => call.ret = ResWho("DoubleVote", Sigs[FirstRepeat].ValidatorAddress,
                            FirstOccurrence(FirstRepeat) - 1, FirstRepeat - 1)
    /\ (SecondOccurrences # {} /\ ~ScanReaches(FirstRepeat))
       => call.ret.kind \in {"ok", "WrongSignature"}
    /\ call.ret.kind = "DoubleVote" => SecondOccurrences # {}

\* a second signature of voter 1 was reached and reported
C3_Witness ==
  /\ Scanned
  /\ Len(vs.Voters) = 2
  /\ call.ret = ResWho("DoubleVote", 1, 0, 1)

\* a repeated voter went unreported because the first signature already
\* exceeded the threshold
C3_EarlyAccept ==
  /\ Scanned
  /\ SecondOccurrences # {}
  /\ PresentSigsValidByAddress
  /\ call.ret = Ok

\* C4 (as stated): each of the three verifiers rejects a commit of another
\* height with HeightMismatch and a commit of another block id with
\* BlockIdMismatch before examining a signature (for the first two, unless
\* the signature count already differs).
C4_AllThreeCheckHeightAndBlock ==
  (/\ call.op \in PositionalOps \cup {"VerifyCommitLightTrusting"}
   /\ call.ret # Panic
   /\ (call.arg.commit.Height # call.arg.height
       \/ call.arg.commit.BlockID # call.arg.blockID))
  => /\ call.ret.kind \in {"HeightMismatch", "BlockIdMismatch", "SignatureCountMismatch"}
     /\ call.ret.kind = "SignatureCountMismatch" => call.op \in PositionalOps
     /\ call.examined = {}

\* C4 (amended): VerifyCommit and VerifyCommitLight reject, before examining
\* any signature, first a signature count that differs from the set's size,
\* then a commit of another height (HeightMismatch), then a commit of another
\* block id (BlockIdMismatch); VerifyCommitLightTrusting takes no height or
\* block id and never returns any of the three errors.
C4_PositionalCheckHeightAndBlock ==
  /\ call.op \in PositionalOps =>
       LET commit == call.arg.commit
           countOk == Len(vs.Voters) = Len(commit.Signatures)
           heightOk == commit.Height = call.arg.height
           blockOk == commit.BlockID = call.arg.blockID
       IN /\ ~countOk => call.ret.kind = "SignatureCountMismatch"
          /\ (countOk /\ ~heightOk) => call.ret.kind = "HeightMismatch"
          /\ (countOk /\ heightOk /\ ~blockOk) => call.ret.kind = "BlockIdMismatch"
          /\ (countOk /\ heightOk /\ blockOk) =>
               call.ret.kind \notin {"SignatureCountMismatch", "HeightMismatch",
                                     "BlockIdMismatch"}
          /\ ~(countOk /\ heightOk /\ blockOk) => call.examined = {}
  /\ call.op = "VerifyCommitLightTrusting" =>
       call.ret.kind \notin {"SignatureCountMismatch", "HeightMismatch", "BlockIdMismatch"}

\* VerifyCommitLight turned away a commit of another height whose block id
\* matches
C4_Witness ==
  /\ call.op = "VerifyCommitLight"
  /\ Len(vs.Voters) = 2
  /\ call.arg.commit.BlockID = call.arg.blockID
  /\ call.ret.kind = "HeightMismatch"
  /\ call.examined = {}

\* the trusting verifier accepted a commit of another height
C4_TrustingAcceptsOtherHeight ==
  /\ call.op = "VerifyCommitLightTrusting"
  /\ call.arg.commit.Height # call.arg.height
  /\ call.ret = Ok

\* floor(a / b) for b > 0
FloorDiv(a, b) == IF a >= 0 THEN a \div b ELSE 0 - ((0 - a + b - 1) \div b)

\* C5: for a trust level with non-zero denominator, VerifyCommitLightTrusting
\* either returns the overflow error or uses the threshold
\* floor(TotalVotingPower * numerator / denominator) of unbounded arithmetic;
\* it never accepts a commit against a wrapped threshold.
C5_ThresholdNeverWraps ==
  (/\ call.op = "VerifyCommitLightTrusting"
   /\ call.arg.trustLevel.Denominator # 0
   /\ call.ret # Panic)
  => \/ call.ret.kind = "Overflow"
     \/ call.needed = FloorDiv(ReturnedTotal * call.arg.trustLevel.Numerator,
                               call.arg.trustLevel.Denominator)

\* the numerator and the denominator of the trust level fit a signed integer
TrustLevelFitsInt64 ==
  /\ call.arg.trustLevel.Numerator <= MaxInt64
  /\ call.arg.trustLevel.Denominator <= MaxInt64

\* C5 for the trust levels whose numerator and denominator fit a signed
\* integer: the multiplication is checked and the threshold is exact
ThresholdExactWhenTrustLevelFits ==
  (call.op = "VerifyCommitLightTrusting" /\ TrustLevelFitsInt64)
  => C5_ThresholdNeverWraps

\* a commit was accepted against a negative threshold
C5_AcceptedAgainstWrappedThreshold ==
  /\ call.op = "VerifyCommitLightTrusting"
  /\ call.ret = Ok
  /\ call.needed < 0

(* ===================================================================== *)
(* Properties of construction and encoding (checked under Spec)            *)
(* ===================================================================== *)

StrictlyAscending(voters) ==
  \A i \in 1..(Len(voters) - 1) : voters[i].Address < voters[i + 1].Address

\* C6: every voter set obtained from a constructor path (NewVoterSet, both
\* branches of SelectVoter, ToVoterAll, Copy, a successful VoterSetFromProto)
\* has its voters in strictly ascending address order, no address twice.
C6_AddressesStrictlyAscending == built => StrictlyAscending(vs.Voters)

\* C6 for the sets built by NewVoterSet, SelectVoter and ToVoterAll: they are
\* in strictly ascending address order; only the decoder takes the order it
\* is given
AscendingWhenBuiltHere ==
  (built /\ call.op \in {"NewVoterSet", "SelectVoter", "ToVoterAll"})
  => StrictlyAscending(vs.Voters)

RECURSIVE ClippedSum(_)
ClippedSum(voters) ==
  IF voters = <<>> THEN 0
  ELSE safeAddClip(ClippedSum(SubSeq(voters, 1, Len(voters) - 1)),
                   voters[Len(voters)].VotingPower)

\* C7: in every state of a constructed voter set the total returned by
\* TotalVotingPower() and the total written by ToProto equal the clipped sum
\* of the voters' powers.
C7_CachedTotalIsClippedSum ==
  built => /\ TotalVotingPower(vs).res = Res("ok", ClippedSum(vs.Voters), 0)
           /\ ToProto(vs).total_voting_power = ClippedSum(vs.Voters)

\* C7 for the sets built by NewVoterSet, SelectVoter and ToVoterAll: the
\* cached total is the clipped sum
TotalIsSumWhenBuiltHere ==
  (built /\ call.op \in {"NewVoterSet", "SelectVoter", "ToVoterAll"})
  => C7_CachedTotalIsClippedSum

RECURSIVE SumOfWins(_, _)
SumOfWins(win, n) == IF n = 0 THEN 0 ELSE win[n] + SumOfWins(win, n - 1)

\* the voters the sampling branch is to produce: the candidates that won, in
\* candidate order, with power floor(T / d) * win + ceil((T mod d) * win / d)
RECURSIVE ExpectedVoters(_, _, _, _, _)
ExpectedVoters(validators, win, T, d, i) ==
  IF i > Len(validators) THEN <<>>
  ELSE IF win[i] > 0
       THEN <<Validator(validators[i].Address,
                        (T \div d) * win[i] + ExactCeilOfShare(T % d, d, win[i]))>>
            \o ExpectedVoters(validators, win, T, d, i + 1)
       ELSE ExpectedVoters(validators, win, T, d, i + 1)

Distance(a, b) == IF a >= b THEN a - b ELSE b - a

\* C9: for more than MaxVoters validators and a non-empty proof hash, with d
\* the sum of the win counts: exactly the candidates that won become voters,
\* each with power floor(T / d) * win + ceil((T mod d) * win / d), and the sum
\* of these powers differs from the validators' total T by at most d.
C9_SelectedPowers ==
  (call.op = "SelectVoter" /\ call.arg.sampled) =>
    LET validators == call.arg.validators
        win == call.arg.win
        T == SumPowers(validators)
        d == SumOfWins(win, Len(win))
    IN /\ call.ret = Ok
       /\ built
       /\ vs.Voters = ExpectedVoters(validators, win, T, d, 1)
       /\ Distance(SumPowers(vs.Voters), T) <= d

\* C9 for the calls that return: the winners and their powers are as stated
SelectedPowersWhenReturning ==
  (call.op = "SelectVoter" /\ call.arg.sampled /\ call.ret # Panic) => C9_SelectedPowers

(* ===================================================================== *)
(* Shared readers (checked under RaceSpec)                                 *)
(* ===================================================================== *)

\* C10: a constructed voter set is shared by concurrent readers without
\* synchronisation: under every interleaving of TotalVotingPower, the three
\* verifiers, Hash, HasAddress, GetByAddress, GetByIndex and ToProto, no call
\* writes a field of the set, also when its total power is zero.
C10_ReadersNeverWrite == writes = 0

\* C10 for the sets whose cached total is not zero: no reader writes
NoWriteWhenTotalCached ==
  (built /\ call.op = "NewVoterSet" /\ SumPowers(vs.Voters) > 0) => writes = 0

(* ===================================================================== *)
(* Scan order of the early-exit verifiers (checked under VerifySpec)       *)
(* ===================================================================== *)

\* the light verifier passed its preconditions and scanned the commit
LightScanned ==
  /\ call.op = "VerifyCommitLight"
  /\ CommitPrecondition(vs, call.arg.blockID, call.arg.height, call.arg.commit) = Ok
  /\ call.ret # Panic

\* the result of scanning the commit of the call in the given order
ScanResult(order) ==
  IF call.op = "VerifyCommitLight"
  THEN VerifyCommitLightScan(vs, call.arg.commit, order, 1, 0, call.needed)
  ELSE VerifyCommitLightTrustingScan(vs, call.arg.commit, order, 1, 0, call.needed, {})

\* every order of scanning accepts, or every order rejects
SameOutcomeInEveryOrder ==
  \A order \in ScanOrders(Len(Sigs)) : (ScanResult(order) = Ok) <=> (call.ret = Ok)

ForBlockSigsValidByIndex ==
  \A i \in 1..Len(Sigs) :
    ForBlock(Sigs[i]) => VerifySignature(vs.Voters[i].PubKey, Sigs[i].Signature)

CountedSigsValid ==
  \A i \in 1..Len(Sigs) :
    Counts(i) => VerifySignature(VoterOf(i).val.PubKey, Sigs[i].Signature)

SameOutcomeEvenWhenTallyOverflows ==
  /\ (LightScanned /\ ForBlockSigsValidByIndex) => SameOutcomeInEveryOrder
  /\ (Scanned /\ CountedSigsValid /\ SecondOccurrences = {}) => SameOutcomeInEveryOrder

(* ===================================================================== *)
(* BitArray.Unmarshal (checked under UnmarshalSpec)                        *)
(* ===================================================================== *)

Returned == call.op = "Unmarshal" /\ call.at = "done"

DecodeErrors == {ErrIntOverflowTypes, ErrInvalidLengthTypes, ErrUnexpectedEOF}

\* the buffers cut short of the input of a successful call: its proper
\* prefixes that do not end where one of its fields starts
TruncatedBuffers ==
  {SubSeq(call.arg, 1, k) : k \in (0..(Len(call.arg) - 1)) \ call.fields}

\* C12: on every input BitArray.Unmarshal reads no byte at an index >=
\* len(input); it returns ErrIntOverflowTypes, ErrInvalidLengthTypes or
\* io.ErrUnexpectedEOF for every truncated buffer and it returns an error
\* for every varint that is malformed, also one whose value does not fit
\* the word: it never returns success with a value that lost bits.
C12_UnmarshalRejectsMalformedInput ==
  Returned =>
    /\ call.read < Len(call.arg)
    /\ call.lossy => call.ret # "nil"
    /\ call.ret = "nil" => \A d \in TruncatedBuffers : Unmarshal(d).err \in DecodeErrors

\* C12 without the varints: no byte is read past the end and every
\* truncated buffer is rejected with one of the three errors
BoundsAndTruncationChecked ==
  Returned =>
    /\ call.read < Len(call.arg)
    /\ call.ret = "nil" => \A d \in TruncatedBuffers : Unmarshal(d).err \in DecodeErrors
    /\ call.ret = Unmarshal(call.arg).err

\* a varint with more bytes than the word has groups is rejected
LongVarintRejected ==
  (Returned /\ \E i \in 1..(Len(call.arg) - 1) :
                 /\ call.arg[i] >= 128 /\ call.arg[i + 1] >= 128
                 /\ (i - 1) \in call.fields)
  => call.ret = ErrIntOverflowTypes

(* ===================================================================== *)
(* The evidence pool (checked under PoolSpec)                              *)
(* ===================================================================== *)

\* add_evidence leaves the answer of is_committed for every evidence as it was
AddEvidenceCommitsNothing ==
  call'.op = "AddEvidence" =>
    \A e \in Evidences : IsCommitted(pool', e) <=> IsCommitted(pool, e)

\* C13: over any sequence of add_evidence, is_committed and
\* mark_evidence_as_committed calls, is_committed(e) is false for evidence
\* never seen, stays false after add_evidence(e) succeeds, and is true after
\* mark_evidence_as_committed was called with a list containing e;
\* add_evidence alone never makes is_committed(e) true.
C13_CommittedExactlyWhenMarked ==
  /\ [](call.op = "IsCommitted" => (call.ret <=> call.arg \in seen.marked))
  /\ [][AddEvidenceCommitsNothing]_vars

\* the sequence of the test: added, then marked, then asked
C13_Witness ==
  /\ call.op = "IsCommitted"
  /\ call.arg \in seen.added
  /\ call.arg \in seen.marked
  /\ call.ret = TRUE

\* the step before in the test: added, not marked, asked
C13_AddedNotMarked ==
  /\ call.op = "IsCommitted"
  /\ call.arg \in seen.added
  /\ call.arg \notin seen.marked
  /\ call.ret = FALSE

(* ===================================================================== *)
(* The scan of VerifyCommitLight (checked under VerifySpec)                *)
(* ===================================================================== *)

\* the power of the for-block entries 1..k, each taken from the voter at its index
RECURSIVE ForBlockPowerThrough(_)
ForBlockPowerThrough(k) ==
  IF k = 0 THEN 0
  ELSE (IF ForBlock(Sigs[k]) THEN vs.Voters[k].VotingPower ELSE 0)
       + ForBlockPowerThrough(k - 1)

\* the first entry at which that tally exceeds floor(2 * total / 3), the
\* length of the commit plus one if there is none
StopIndex ==
  LET over == {k \in 1..Len(Sigs) :
                 ForBlock(Sigs[k]) /\ ForBlockPowerThrough(k) > FloorDiv(2 * ReturnedTotal, 3)}
  IN IF over = {} THEN Len(Sigs) + 1 ELSE Lowest(over)

\* the for-block entries whose signature fails against the voter at the same index
BadForBlock ==
  {i \in 1..Len(Sigs) :
     ForBlock(Sigs[i]) /\ ~VerifySignature(vs.Voters[i].PubKey, Sigs[i].Signature)}

\* the entries other than those, with a signature that fails all the same
BadElsewhere ==
  {i \in 1..Len(Sigs) :
     /\ ~VerifySignature(vs.Voters[i].PubKey, Sigs[i].Signature)
     /\ (~ForBlock(Sigs[i]) \/ i > StopIndex)}

StopsAtThreshold ==
  LET bad == {i \in BadForBlock : i <= StopIndex}
      last == IF bad = {} THEN StopIndex ELSE Lowest(bad)
  IN /\ call.examined = {i - 1 : i \in {j \in 1..Len(Sigs) : ForBlock(Sigs[j]) /\ j <= last}}
     /\ bad # {} => call.ret = Res("WrongSignature", Lowest(bad) - 1, 0)
     /\ bad = {} =>
          IF StopIndex <= Len(Sigs) THEN call.ret = Ok
          ELSE call.ret.kind = "NotEnoughVotingPowerSigned"

\* C14: VerifyCommitLight verifies only for-block signatures, in ascending
\* index order, and stops at the first index at which the running tally
\* exceeds floor(2 * TotalVotingPower / 3): an invalid signature on an absent
\* or nil entry, or on an entry after that index, does not cause rejection,
\* and an invalid for-block signature at or before that index gives the
\* wrong-signature error.
C14_LightStopsAtThreshold ==
  (/\ call.op = "VerifyCommitLight"
   /\ CommitPrecondition(vs, call.arg.blockID, call.arg.height, call.arg.commit) = Ok)
  => StopsAtThreshold

\* C14 on the voter sets whose cached total is the sum of the powers and is
\* within the ceiling
LightStopsAtThresholdWhenTotalIsSum ==
  (/\ call.op = "VerifyCommitLight"
   /\ ConsistentTotal(call.arg.voters)
   /\ SumPowers(call.arg.voters.Voters) <= MaxTotalVotingPower)
  => C14_LightStopsAtThreshold

\* a commit accepted although an entry after the stop carries an invalid signature
C14_AcceptedWithBadSignatureAfterStop ==
  /\ call.op = "VerifyCommitLight"
  /\ ConsistentTotal(call.arg.voters)
  /\ SumPowers(call.arg.voters.Voters) <= MaxTotalVotingPower
  /\ call.ret = Ok
  /\ \E i \in BadElsewhere : ForBlock(Sigs[i]) /\ i > StopIndex

(* ===================================================================== *)
(* The ceiling in SelectVoter (checked under Spec)                          *)
(* ===================================================================== *)

\* C15: for every validator set whose total voting power is at most
\* MaxTotalVotingPower, every non-empty proof hash and every sampler outcome,
\* SelectVoter returns a voter set and does not abort in
\* updateTotalVotingPower: the rounded-up powers of the voters sum to at most
\* MaxTotalVotingPower.
C15_SelectVoterNeverAborts ==
  (call.op = "SelectVoter" /\ Len(call.arg.proofHash) > 0) =>
    /\ call.ret = Ok
    /\ built
    /\ SumPowers(vs.Voters) <= MaxTotalVotingPower

\* the branch that samples nothing hands the validators on and never aborts
PassThroughNeverAborts ==
  (call.op = "SelectVoter" /\ ~call.arg.sampled) =>
    /\ call.ret = Ok
    /\ built
    /\ SumPowers(vs.Voters) <= MaxTotalVotingPower

\* the sampling branch aborts only when the rounded-up powers pass the ceiling
AbortsOnlyAboveCeiling ==
  (call.op = "SelectVoter" /\ call.arg.sampled) =>
    LET vals == SelectedVals(call.arg.validators, call.arg.win)
    IN (call.ret = Panic) <=> (SumPowers(vals) > MaxTotalVotingPower)

(* ===================================================================== *)
(* VerifyCommit and VerifyCommitLight (checked under VerifySpec)           *)
(* ===================================================================== *)

\* VerifyCommitLight on the arguments of the call
LightOnSameArguments ==
  VerifyCommitLight(call.arg.voters, call.arg.blockID, call.arg.height, call.arg.commit)

\* VerifyCommit on the arguments of the call
ExhaustiveOnSameArguments ==
  VerifyCommit(call.arg.voters, call.arg.blockID, call.arg.height, call.arg.commit)

\* C16: the light verifier is a weakening of the exhaustive one: for every
\* voter set, block id, height and commit, if VerifyCommit returns success
\* then VerifyCommitLight on the same arguments returns success.
C16_LightAcceptsWhatVerifyCommitAccepts ==
  (call.op = "VerifyCommit" /\ call.ret = Ok) => LightOnSameArguments.res = Ok

\* VerifyCommit accepted a commit of which the light scan leaves entries unexamined
C16_Witness ==
  /\ call.op = "VerifyCommit"
  /\ call.ret = Ok
  /\ LightOnSameArguments.res = Ok
  /\ LightOnSameArguments.examined # call.examined

\* the converse does not hold: a commit the light verifier accepts and the
\* exhaustive one rejects
C16_OnlyLightAccepts ==
  /\ call.op = "VerifyCommitLight"
  /\ call.ret = Ok
  /\ ExhaustiveOnSameArguments.res # Ok

====
